---- MODULE Spec2Model ----
(***************************************************************************)
(* Quantum vibrational averages of a muon property (pymuonsuite).          *)
(*                                                                         *)
(* The module models src/pymuonsuite/quantum/vibrational/average.py:       *)
(*   - muon_vibrational_average_write, statement by statement (Spec);      *)
(*   - the external property evaluation of the displaced configurations,   *)
(*     which may complete in any order (Spec);                             *)
(*   - muon_vibrational_average_read, statement by statement (Spec);       *)
(*   - the numpy reduction of lines 268-274 as a function of arbitrary     *)
(*     values and weights (SpecReduce);                                    *)
(*   - read_castep_gamma_phonons' gamma point search (SpecGamma).          *)
(*                                                                         *)
(* Python sequences are 0-based and accept negative indices; TLA+          *)
(* sequences are 1-based.  PyPos converts.  Real numbers are scaled        *)
(* integers: masses in units of the muon mass, weights in units of         *)
(* 1/Scale, wavevector components in units of 5e-9.                        *)
(*                                                                         *)
(* Left out: the periodic boundary flags (line 194, and the .cell / .xyz   *)
(* extension of the _allconf file, which fs.allconf stands for), the       *)
(* calculator parameters taken from kwargs, and the choice of the phonon   *)
(* reader, whose outcome is the state of the phonon source.                *)
(***************************************************************************)
EXTENDS Integers, Sequences, FiniteSets, TLC

VARIABLES
    pc,      \* position of the write / read workflow
    cell,    \* the structure file: species, masses, positions
    phfile,  \* state of the phonon source on disk
    inp,     \* arguments of the running call
    loc,     \* locals of muon_vibrational_average_write
    fs,      \* output files: the _allconf file, the _displaced tree, the report
    ev,      \* the configurations evaluated so far, and whether they completed in index order
    rd,      \* locals of muon_vibrational_average_read
    err,     \* the exception that ended the last call, if any
    red,     \* input and output of the reduction (SpecReduce)
    gam      \* input and output of the gamma point search (SpecGamma)

vars == <<pc, cell, phfile, inp, loc, fs, ev, rd, err, red, gam>>

-----------------------------------------------------------------------------
(* Bounds of the model *)

NumAtoms == 2      \* atoms in the cell
MaxGridN == 3      \* largest grid_n
MaxVals  == 3      \* largest number of values handed to the reduction
MaxQpts  == 3      \* largest number of q-points in the phonon data

(* Weights are integers in units of 1/Scale: a normalised set sums to Scale *)
Scale == 2 * 2 * 3

-----------------------------------------------------------------------------
(* Generic helpers *)

Abs(x) == IF x < 0 THEN -x ELSE x

Min(a, b) == IF a < b THEN a ELSE b

RECURSIVE SumSeq(_)
SumSeq(s) == IF Len(s) = 0 THEN 0 ELSE Head(s) + SumSeq(Tail(s))

(* Python index i into a sequence of length n: the 1-based position, or 0  *)
(* when Python raises IndexError.                                          *)
PyPos(i, n) ==
    IF 0 <= i /\ i < n THEN i + 1
    ELSE IF i < 0 /\ -n <= i THEN i + n + 1
    ELSE 0

PySet(s, i, v) == [s EXCEPT ![PyPos(i, Len(s))] = v]

PyGet(s, i) == s[PyPos(i, Len(s))]

NoErr == [type |-> "none", indices |-> {}]

Raise(t) == [type |-> t, indices |-> {}]

-----------------------------------------------------------------------------
(* The cell and the physical constants *)

mu_symbol == "H:mu"

(* constants.m_mu_amu, in units of itself *)
m_mu_amu == 1

(* parse_castep_masses / cell.get_masses(): the muon is described as a     *)
(* hydrogen, so every atom of the model carries the hydrogen mass, about   *)
(* nine muon masses.                                                       *)
CellMasses(species) == [j \in 1..Len(species) |-> 9]

CellPositions(n) == [j \in 1..n |-> 10 * j]

Cells ==
    { [species |-> sp, masses |-> CellMasses(sp), positions |-> CellPositions(NumAtoms)] :
        sp \in [1..NumAtoms -> {"H", mu_symbol}] }

-----------------------------------------------------------------------------
(* The displacement scheme object (pymuonsuite.quantum.vibrational.schemes) *)

NoScheme ==
    [kind |-> "unbound", masses |-> <<>>, mu |-> <<>>, displacements |-> <<>>,
     weights |-> <<>>, log |-> <<>>]

IndependentDisplacements(masses, mu_index) ==
    [kind |-> "independent", masses |-> masses, mu |-> <<mu_index>>,
     displacements |-> <<>>, weights |-> <<>>, log |-> <<>>]

MonteCarloDisplacements(masses) ==
    [kind |-> "montecarlo", masses |-> masses, mu |-> <<>>,
     displacements |-> <<>>, weights |-> <<>>, log |-> <<>>]

(* Amplitude of a mode at an atom of mass m: shrinks with the mass, grows  *)
(* with the temperature.                                                   *)
Amp(m, T) == (9 \div m) * (1 + T)

(* Independent scheme: grid point i of n along the muon's mode; only the   *)
(* target atom moves.                                                      *)
IndepDisplacement(sch, i, n, T) ==
    LET t == PyPos(sch.mu[1], Len(sch.masses))
    IN  [j \in 1..Len(sch.masses) |->
            IF j = t THEN (2 * (i - 1) - (n - 1)) * Amp(sch.masses[t], T) ELSE 0]

(* Monte Carlo scheme: every atom moves by a randomly drawn amplitude      *)
McDisplacement(sch, a, T) ==
    [j \in 1..Len(sch.masses) |-> a * Amp(sch.masses[j], T)]

(* recalc_displacements(n, T): the set of schemes the call may leave       *)
(* behind (one for the grid, one per random draw for Monte Carlo).         *)
RecalcDisplacements(sch, n, T) ==
    IF sch.kind = "independent"
    THEN { [sch EXCEPT !.displacements = [i \in 1..n |-> IndepDisplacement(sch, i, n, T)],
                       !.log = Append(@, <<"recalc_displacements", n, T>>)] }
    ELSE { [sch EXCEPT !.displacements = [i \in 1..n |-> McDisplacement(sch, a[i], T)],
                       !.log = Append(@, <<"recalc_displacements", n, T>>)] :
             a \in [1..n -> {-1, 1}] }

(* Weight of grid point i of n: a tent at T = 0, flat at T > 0; uniform    *)
(* for Monte Carlo.                                                        *)
TentRaw(i, n) == 1 + Min(i - 1, n - i)

SchemeWeight(sch, i, n, T) ==
    IF sch.kind = "independent" /\ T = 0
    THEN (TentRaw(i, n) * Scale) \div SumSeq([k \in 1..n |-> TentRaw(k, n)])
    ELSE Scale \div n

(* recalc_weights(T): repopulates the weights, leaves the displacements    *)
RecalcWeights(sch, T) ==
    LET n == Len(sch.displacements)
    IN  [sch EXCEPT !.weights = [i \in 1..n |-> SchemeWeight(sch, i, n, T)],
                    !.log = Append(@, <<"recalc_weights", T>>)]

-----------------------------------------------------------------------------
(* numpy: the reduction of muon_vibrational_average_read                    *)
(*                                                                         *)
(* An array is [ndim, shape, d].  d holds the elements as rows: a 1-D      *)
(* array of n elements is the single row of its left-padded shape (1, n),  *)
(* which is how numpy aligns it when broadcasting; a 2-D array (n, K) is   *)
(* n rows of K elements.  A hyperfine tensor is flattened to K components. *)

Arr0(x) == [ndim |-> 0, shape |-> <<>>, d |-> <<<<x>>>>]

Arr1(data) == [ndim |-> 1, shape |-> <<Len(data)>>, d |-> <<data>>]

Arr2(rows, K) == [ndim |-> 2, shape |-> <<Len(rows), K>>, d |-> rows]

(* The shape padded on the left to two axes *)
PadShape(a) ==
    IF a.ndim = 0 THEN <<1, 1>>
    ELSE IF a.ndim = 1 THEN <<1, a.shape[1]>>
    ELSE a.shape

(* np.array(to_avg): scalars stack to (N,), K-component tensors to (N, K); *)
(* an empty list is the 1-D array of shape (0,).                           *)
NpArray(values, scalar, K) ==
    IF Len(values) = 0 THEN Arr1(<<>>)
    ELSE IF scalar THEN Arr1([i \in 1..Len(values) |-> values[i][1]])
    ELSE Arr2(values, K)

(* Faulty variant of NpIndexWeights: the weights sliced without the new axes *)
NpIndexWeightsFlat(weights, N, ndim) ==
    Arr1(SubSeq(weights, 1, Min(N, Len(weights))))

(* lines 272-273: displsch.weights[(slice(N), None, ...)]: the first N     *)
(* weights, with one new axis of length 1 per value axis.                  *)
NpIndexWeights(weights, N, ndim) ==
    LET w == SubSeq(weights, 1, Min(N, Len(weights)))
    IN  IF ndim = 1 THEN Arr1(w)
        ELSE Arr2([r \in 1..Len(w) |-> <<w[r]>>], 1)

(* Length of the broadcast of two axes, 0 - 1 when numpy raises ValueError *)
NpBroadcastLen(a, b) ==
    IF a = b THEN a
    ELSE IF a = 1 THEN b
    ELSE IF b = 1 THEN a
    ELSE 0 - 1

NpBroadcastable(a, b) ==
    /\ NpBroadcastLen(PadShape(a)[1], PadShape(b)[1]) >= 0
    /\ NpBroadcastLen(PadShape(a)[2], PadShape(b)[2]) >= 0

(* a * b for broadcastable a, b *)
NpMultiply(a, b) ==
    LET sa == PadShape(a)
        sb == PadShape(b)
        R  == NpBroadcastLen(sa[1], sb[1])
        C  == NpBroadcastLen(sa[2], sb[2])
        nd == IF a.ndim > b.ndim THEN a.ndim ELSE b.ndim
        d  == [r \in 1..R |-> [c \in 1..C |->
                  a.d[IF sa[1] = 1 THEN 1 ELSE r][IF sa[2] = 1 THEN 1 ELSE c]
                    * b.d[IF sb[1] = 1 THEN 1 ELSE r][IF sb[2] = 1 THEN 1 ELSE c]]]
    IN  [ndim |-> nd, shape |-> IF nd = 1 THEN <<C>> ELSE <<R, C>>, d |-> d]

RECURSIVE NpSumRows(_, _)
NpSumRows(rows, K) ==
    IF Len(rows) = 0 THEN [k \in 1..K |-> 0]
    ELSE LET rest == NpSumRows(Tail(rows), K)
         IN  [k \in 1..K |-> Head(rows)[k] + rest[k]]

(* line 274: np.sum(a, axis=0): a scalar for a 1-D array, a row for 2-D *)
NpSumAxis0(a) ==
    IF a.ndim = 1 THEN Arr0(SumSeq(a.d[1]))
    ELSE Arr1(NpSumRows(a.d, a.shape[2]))

(* lines 270-274: avg, or the ValueError of a failed broadcast *)
NpReduce(to_avg, weights, N) ==
    LET w == NpIndexWeights(weights, N, to_avg.ndim)
    IN  IF ~NpBroadcastable(w, to_avg)
        THEN [ok |-> FALSE, avg |-> Arr1(<<>>), used |-> <<>>]
        ELSE [ok |-> TRUE, avg |-> NpSumAxis0(NpMultiply(w, to_avg)),
              used |-> SubSeq(weights, 1, Min(N, Len(weights)))]

-----------------------------------------------------------------------------
(* muon_vibrational_average_write                                           *)

NoCall ==
    [mu_index |-> 0 - 1, method |-> "independent", calculator |-> "castep",
     write_allconf |-> FALSE, grid_n |-> 1, displace_T |-> 0,
     average_T |-> 0, avgprop |-> "hyperfine"]

NoLocals ==
    [species |-> <<>>, mu_index |-> 0 - 1, masses |-> <<>>, displsch |-> NoScheme,
     displaced_cells |-> <<>>, io_format |-> "unbound"]

NoTree ==
    [written |-> FALSE, dirlist |-> <<>>, cells |-> <<>>,
     displacement_scheme |-> NoScheme, muon_index |-> 0 - 1]

NoReport == [written |-> FALSE, avg |-> Arr1(<<>>), confs |-> <<>>]

NoRead ==
    [coll |-> <<>>, mu_i |-> 0 - 1, displsch |-> NoScheme,
     to_avg |-> Arr1(<<>>), avg |-> Arr1(<<>>), used |-> <<>>]

Methods == {"independent", "montecarlo", "thermal"}

Calculators == {"castep", "dftb+", "dftb"}

(* Faulty variant of ResolveMuon: a muon found by its symbol does not override the *)
(* mu_index argument.                                                      *)
ResolveMuonNoOverride(species, mu_index) ==
    LET mu_indices == {j \in 1..Len(species) : species[j] = mu_symbol}
    IN  IF Cardinality(mu_indices) > 1
        THEN [err |-> "MuonAverageError", species |-> species, mu_index |-> mu_index]
        ELSE IF PyPos(mu_index, Len(species)) = 0
        THEN [err |-> "IndexError", species |-> species, mu_index |-> mu_index]
        ELSE IF Cardinality(mu_indices) = 1
        THEN [err |-> "none", species |-> species, mu_index |-> mu_index]
        ELSE [err |-> "none", species |-> PySet(species, mu_index, mu_symbol),
              mu_index |-> mu_index]

(* lines 129-138: find the muon among the species *)
ResolveMuon(species, mu_index) ==
    LET mu_indices == {j \in 1..Len(species) : species[j] = mu_symbol}
    IN  IF Cardinality(mu_indices) > 1
        THEN [err |-> "MuonAverageError", species |-> species, mu_index |-> mu_index]
        ELSE IF Cardinality(mu_indices) = 1
        THEN [err |-> "none", species |-> species,
              mu_index |-> (CHOOSE j \in mu_indices : TRUE) - 1]
        ELSE IF PyPos(mu_index, Len(species)) = 0
        THEN [err |-> "IndexError", species |-> species, mu_index |-> mu_index]
        ELSE [err |-> "none", species |-> PySet(species, mu_index, mu_symbol),
              mu_index |-> mu_index]

(* Faulty variant of SetMuonMass: the host mass is left in place *)
SetMuonMassSkipped(masses, mu_index) == masses

(* line 176: masses[mu_index] = constants.m_mu_amu *)
SetMuonMass(masses, mu_index) == PySet(masses, mu_index, m_mu_amu)

(* lines 180-184: the scheme constructor chosen by the method name *)
CreateScheme(method, masses, mu_index) ==
    IF method = "independent" THEN IndependentDisplacements(masses, mu_index)
    ELSE IF method = "montecarlo" THEN MonteCarloDisplacements(masses)
    ELSE NoScheme

(* line 186: the scheme call of the write workflow *)
WriteRecalc(sch, n, T) == RecalcDisplacements(sch, n, T)

(* line 196: sname + '_displaced_{0}'.format(i) *)
ConfName(i) == <<"displaced", i>>

(* Faulty variant of MakeDisplacedCells: the cell itself is moved, so every *)
(* displacement adds to the ones before it.                                *)
MakeDisplacedCellsInPlace(pos, displacements) ==
    [i \in 1..Len(displacements) |->
        [name |-> ConfName(i - 1),
         positions |-> [j \in 1..Len(pos) |->
             pos[j] + SumSeq([k \in 1..i |-> displacements[k][j]])]]]

(* lines 189-197: one copy of the cell per displacement, moved by it *)
MakeDisplacedCells(pos, displacements) ==
    [i \in 1..Len(displacements) |->
        [name |-> ConfName(i - 1),
         positions |-> [j \in 1..Len(pos) |-> pos[j] + displacements[i][j]]]]

(* lines 208-221: the writer of the chosen calculator *)
GetCalculator(calculator) ==
    IF calculator = "castep" THEN "castep"
    ELSE IF calculator = "dftb+" THEN "dftb+"
    ELSE "unbound"

WFail(t) ==
    /\ pc' = "w_failed"
    /\ err' = Raise(t)

WriteCall ==
    /\ pc = "idle"
    /\ \E mi \in (0 - NumAtoms - 1)..NumAtoms, me \in Methods, ca \in Calculators,
          wa \in BOOLEAN, gn \in 1..MaxGridN, dT \in {0, 1} :
          inp' = [NoCall EXCEPT !.mu_index = mi, !.method = me, !.calculator = ca,
                                !.write_allconf = wa, !.grid_n = gn, !.displace_T = dT]
    /\ loc' = NoLocals
    /\ rd' = NoRead
    /\ err' = NoErr
    /\ pc' = "w_species"
    /\ UNCHANGED <<cell, phfile, fs, ev, red, gam>>

(* lines 116-140 *)
WFetchSpecies ==
    /\ pc = "w_species"
    /\ LET r == ResolveMuon(cell.species, inp.mu_index)
       IN  IF r.err # "none"
           THEN WFail(r.err) /\ UNCHANGED loc
           ELSE /\ loc' = [loc EXCEPT !.species = r.species, !.mu_index = r.mu_index]
                /\ pc' = "w_phonons"
                /\ UNCHANGED err
    /\ UNCHANGED <<cell, phfile, inp, fs, ev, rd, red, gam>>

(* lines 147-168: a missing file and a file without phonons both end in IOError *)
WLoadPhonons ==
    /\ pc = "w_phonons"
    /\ IF phfile = "ok"
       THEN pc' = "w_masses" /\ UNCHANGED err
       ELSE WFail("IOError")
    /\ UNCHANGED <<cell, phfile, inp, loc, fs, ev, rd, red, gam>>

(* lines 170-177 *)
WFetchMasses ==
    /\ pc = "w_masses"
    /\ loc' = [loc EXCEPT !.masses = SetMuonMass(cell.masses, loc.mu_index)]
    /\ pc' = "w_scheme"
    /\ UNCHANGED <<cell, phfile, inp, fs, ev, rd, err, red, gam>>

(* lines 179-184 *)
WCreateScheme ==
    /\ pc = "w_scheme"
    /\ loc' = [loc EXCEPT !.displsch = CreateScheme(inp.method, loc.masses, loc.mu_index)]
    /\ pc' = "w_displace"
    /\ UNCHANGED <<cell, phfile, inp, fs, ev, rd, err, red, gam>>

(* line 186: displsch is unbound for an unsupported method *)
WRecalcDisplacements ==
    /\ pc = "w_displace"
    /\ IF loc.displsch.kind = "unbound"
       THEN WFail("UnboundLocalError") /\ UNCHANGED loc
       ELSE /\ \E s \in WriteRecalc(loc.displsch, inp.grid_n, inp.displace_T) :
                  loc' = [loc EXCEPT !.displsch = s]
            /\ pc' = "w_cells"
            /\ UNCHANGED err
    /\ UNCHANGED <<cell, phfile, inp, fs, ev, rd, red, gam>>

(* lines 188-197 *)
WMakeCollection ==
    /\ pc = "w_cells"
    /\ loc' = [loc EXCEPT !.displaced_cells =
                  MakeDisplacedCells(cell.positions, loc.displsch.displacements)]
    /\ pc' = "w_allconf"
    /\ UNCHANGED <<cell, phfile, inp, fs, ev, rd, err, red, gam>>

(* lines 199-205 *)
WWriteAllconf ==
    /\ pc = "w_allconf"
    /\ fs' = [fs EXCEPT !.allconf = inp.write_allconf]
    /\ pc' = "w_calculator"
    /\ UNCHANGED <<cell, phfile, inp, loc, ev, rd, err, red, gam>>

(* lines 207-221 *)
WGetCalculator ==
    /\ pc = "w_calculator"
    /\ loc' = [loc EXCEPT !.io_format = GetCalculator(inp.calculator)]
    /\ pc' = "w_save"
    /\ UNCHANGED <<cell, phfile, inp, fs, ev, rd, err, red, gam>>

(* lines 223-227: io_format is unbound for an unsupported calculator *)
WSaveTree ==
    /\ pc = "w_save"
    /\ IF loc.io_format = "unbound"
       THEN WFail("UnboundLocalError") /\ UNCHANGED fs
       ELSE /\ fs' = [fs EXCEPT !.tree =
                        [written |-> TRUE,
                         dirlist |-> [i \in 1..Len(loc.displaced_cells) |->
                                         loc.displaced_cells[i].name],
                         cells |-> loc.displaced_cells,
                         displacement_scheme |-> loc.displsch,
                         muon_index |-> loc.mu_index]]
            /\ pc' = "w_done"
            /\ UNCHANGED err
    /\ UNCHANGED <<cell, phfile, inp, loc, ev, rd, red, gam>>

(* The call returns: its arguments and locals are gone, the files stay *)
WReturn ==
    /\ pc = "w_done"
    /\ pc' = "written"
    /\ inp' = NoCall
    /\ loc' = NoLocals
    /\ UNCHANGED <<cell, phfile, fs, ev, rd, err, red, gam>>

-----------------------------------------------------------------------------
(* The external property evaluator                                          *)

NoEval == [done |-> {}, in_order |-> TRUE]

Evaluated == ev.done

(* The evaluation of one displaced configuration completes; configurations *)
(* complete in any order, and some may never complete.  in_order records   *)
(* whether every completion so far followed the configuration indices.     *)
Evaluate ==
    /\ pc = "written"
    /\ \E i \in 1..Len(fs.tree.dirlist) :
          /\ fs.tree.dirlist[i] \notin Evaluated
          /\ ev' = [done |-> ev.done \cup {fs.tree.dirlist[i]},
                    in_order |-> ev.in_order /\ \A k \in i..Len(fs.tree.dirlist) :
                                     fs.tree.dirlist[k] \notin Evaluated]
    /\ UNCHANGED <<pc, cell, phfile, inp, loc, fs, rd, err, red, gam>>

(* The hyperfine tensor of every atom of a configuration *)
Hyperfine(positions) ==
    [j \in 1..Len(positions) |-> <<positions[j], SumSeq(positions) - positions[j]>>]

(* The charge of every atom of a configuration *)
Charges(positions) == [j \in 1..Len(positions) |-> positions[j] + j]

-----------------------------------------------------------------------------
(* muon_vibrational_average_read                                            *)

(* The cell stored under a name of the tree *)
TreeCell(tree, name) ==
    tree.cells[CHOOSE i \in 1..Len(tree.cells) : tree.cells[i].name = name]

(* lines 246-248: the structures of the tree, in the order of its list of  *)
(* directories; a structure carries the property once it was evaluated.    *)
LoadTree(tree, evaluated) ==
    [i \in 1..Len(tree.dirlist) |->
        [name |-> tree.dirlist[i],
         positions |-> TreeCell(tree, tree.dirlist[i]).positions,
         has_prop |-> tree.dirlist[i] \in evaluated]]

(* The property at the muon of one configuration *)
MuonValue(positions, avgprop, mu_i) ==
    IF avgprop = "hyperfine"
    THEN PyGet(Hyperfine(positions), mu_i)
    ELSE <<PyGet(Charges(positions), mu_i)>>

(* Faulty variant of CollectValues: structures without the property are skipped *)
CollectValuesTolerant(coll, avgprop, mu_i) ==
    LET have == SelectSeq(coll, LAMBDA a : a.has_prop)
    IN  [err |-> "none",
         values |-> [i \in 1..Len(have) |-> MuonValue(have[i].positions, avgprop, mu_i)]]

(* lines 256-266: the property at the muon of every structure, in the      *)
(* order of the collection; the first structure without it raises.         *)
CollectValues(coll, avgprop, mu_i) ==
    IF \E i \in 1..Len(coll) : ~coll[i].has_prop
    THEN [err |-> IF avgprop = "hyperfine" THEN "KeyError" ELSE "IOError",
          values |-> <<>>]
    ELSE [err |-> "none",
          values |-> [i \in 1..Len(coll) |->
              MuonValue(coll[i].positions, avgprop, mu_i)]]

(* Faulty variant of ReadRecalc: the read workflow regenerates the displacements *)
ReadRecalcRegenerating(sch, T) ==
    {RecalcWeights(s, T) : s \in RecalcDisplacements(sch, Len(sch.displacements), T)}

(* line 269: the scheme call of the read workflow *)
ReadRecalc(sch, T) == {RecalcWeights(sch, T)}

(* lines 297-301: one entry per configuration: index, weight, value *)
ReportConfs(values, weights) ==
    [i \in 1..Len(values) |-> <<i - 1, weights[i], values[i]>>]

RFail(e) ==
    /\ pc' = "r_failed"
    /\ err' = e

ReadCall ==
    /\ pc \in {"idle", "written"}
    /\ \E aT \in {0, 1}, ap \in {"hyperfine", "charge"} :
          inp' = [inp EXCEPT !.average_T = aT, !.avgprop = ap]
    /\ rd' = NoRead
    /\ err' = NoErr
    /\ pc' = "r_load"
    /\ UNCHANGED <<cell, phfile, loc, fs, ev, red, gam>>

(* lines 234-254.  load_tree raises IOError when there is no tree.  What   *)
(* the calculator's reader does with a configuration whose outputs are     *)
(* missing is not decided here: either the load fails (and the error may   *)
(* or may not name the first such directory), or the structure is loaded   *)
(* without the property.                                                   *)
RLoadTree ==
    /\ pc = "r_load"
    /\ LET coll == LoadTree(fs.tree, Evaluated)
           gaps == {i \in 1..Len(coll) : ~coll[i].has_prop}
       IN  \/ /\ ~fs.tree.written
              /\ RFail(Raise("IOError"))
              /\ UNCHANGED rd
           \/ /\ fs.tree.written
              /\ gaps # {}
              /\ \E named \in {{}, {CHOOSE i \in gaps : \A k \in gaps : i <= k}} :
                    RFail([type |-> "IOError", indices |-> {k - 1 : k \in named}])
              /\ UNCHANGED rd
           \/ /\ fs.tree.written
              /\ rd' = [rd EXCEPT !.coll = coll, !.mu_i = fs.tree.muon_index,
                                  !.displsch = fs.tree.displacement_scheme]
              /\ pc' = "r_collect"
              /\ UNCHANGED err
    /\ UNCHANGED <<cell, phfile, inp, loc, fs, ev, red, gam>>

(* lines 256-268 *)
RCollect ==
    /\ pc = "r_collect"
    /\ LET r == CollectValues(rd.coll, inp.avgprop, rd.mu_i)
       IN  IF r.err # "none"
           THEN RFail(Raise(r.err)) /\ UNCHANGED rd
           ELSE /\ rd' = [rd EXCEPT !.to_avg =
                            NpArray(r.values, inp.avgprop = "charge", 2)]
                /\ pc' = "r_average"
                /\ UNCHANGED err
    /\ UNCHANGED <<cell, phfile, inp, loc, fs, ev, red, gam>>

(* lines 269-274 *)
RAverage ==
    /\ pc = "r_average"
    /\ \E s \in ReadRecalc(rd.displsch, inp.average_T) :
          LET r == NpReduce(rd.to_avg, s.weights, Len(rd.coll))
          IN  IF ~r.ok
              THEN RFail(Raise("ValueError")) /\ rd' = [rd EXCEPT !.displsch = s]
              ELSE /\ rd' = [rd EXCEPT !.displsch = s, !.avg = r.avg, !.used = r.used]
                   /\ pc' = "r_report"
                   /\ UNCHANGED err
    /\ UNCHANGED <<cell, phfile, inp, loc, fs, ev, red, gam>>

(* lines 276-301 *)
RReport ==
    /\ pc = "r_report"
    /\ fs' = [fs EXCEPT !.report =
                [written |-> TRUE, avg |-> rd.avg,
                 confs |-> ReportConfs(
                     IF rd.to_avg.ndim = 1 THEN rd.to_avg.d[1] ELSE rd.to_avg.d,
                     rd.displsch.weights)]]
    /\ pc' = "r_done"
    /\ UNCHANGED <<cell, phfile, inp, loc, ev, rd, err, red, gam>>

(* The call returns or the exception leaves it: back to the files alone *)
RReturn ==
    /\ pc \in {"r_done", "r_failed"}
    /\ pc' = IF fs.tree.written THEN "written" ELSE "idle"
    /\ inp' = NoCall
    /\ rd' = NoRead
    /\ err' = NoErr
    /\ UNCHANGED <<cell, phfile, loc, fs, ev, red, gam>>

-----------------------------------------------------------------------------
(* The reduction on arbitrary values and weights                            *)

NoOut == [ok |-> FALSE, avg |-> Arr1(<<>>), used |-> <<>>]

SeqsUpTo(S, n) == UNION {[1..m -> S] : m \in 0..n}

(* Values: up to MaxVals scalars, or tensors of two components *)
ReduceValues ==
    {NpArray(v, TRUE, 1) : v \in SeqsUpTo([1..1 -> {0 - 1, 2}], MaxVals)}
        \cup {NpArray(v, FALSE, 2) : v \in SeqsUpTo([1..2 -> {0 - 1, 2}], MaxVals)}

(* Weights: one to MaxVals + 1 of them, each a quarter or a half *)
ReduceWeights == SeqsUpTo({Scale \div 4, Scale \div 2}, MaxVals + 1) \ {<<>>}

NoReduce == [to_avg |-> Arr1(<<>>), weights |-> <<>>, done |-> FALSE, out |-> NoOut]

(* lines 268-274 applied to red.to_avg and red.weights; N is the number of *)
(* values, as len(displaced_coll) is in the read workflow.                 *)
Reduce ==
    /\ pc = "reduce"
    /\ ~red.done
    /\ red' = [red EXCEPT !.done = TRUE,
                          !.out = NpReduce(red.to_avg, red.weights, red.to_avg.shape[1])]
    /\ UNCHANGED <<pc, cell, phfile, inp, loc, fs, ev, rd, err, gam>>

-----------------------------------------------------------------------------
(* read_castep_gamma_phonons                                                *)

(* Wavevector components are integers in units of 5e-9.  np.isclose(a, b)  *)
(* is |a - b| <= atol + rtol * |b| with atol = 1e-8 and rtol = 1e-5.       *)
np_atol == 2

np_rtol_inv == 100000

NpIsClose(a, b) == Abs(a - b) * np_rtol_inv <= np_atol * np_rtol_inv + Abs(b)

(* Faulty variant of IsGammaPoint: any() in place of all() *)
IsGammaPointAny(q) == \E c \in 1..3 : NpIsClose(q[c], 0)

(* line 70: np.isclose(q, [0, 0, 0]).all() *)
IsGammaPoint(q) == \A c \in 1..3 : NpIsClose(q[c], 0)

(* lines 68-72: the index of the first q-point that passes, from i on;     *)
(* 0 - 1 stands for None.                                                  *)
RECURSIVE FindGamma(_, _)
FindGamma(qpts, i) ==
    IF i >= Len(qpts) THEN 0 - 1
    ELSE IF IsGammaPoint(qpts[i + 1]) THEN i
    ELSE FindGamma(qpts, i + 1)

(* lines 64-78 *)
ReadGammaPhonons(pd) ==
    LET gamma_i == FindGamma(pd.qpts, 0)
    IN  IF gamma_i = 0 - 1
        THEN [err |-> "MuonAverageError", gamma_i |-> gamma_i, evals |-> 0, evecs |-> <<>>]
        ELSE [err |-> "none", gamma_i |-> gamma_i,
              evals |-> pd.evals[gamma_i + 1], evecs |-> pd.evecs[gamma_i + 1]]

(* Wavevectors: zero, non-zero within the tolerance, just outside it, and  *)
(* far from zero.                                                          *)
QSet == {<<0, 0, 0>>, <<1, 0, 0 - 2>>, <<0, 3, 0>>, <<0 - 3, 0, 0>>, <<0, 1, 200>>}

PhononData ==
    UNION {{[qpts |-> q, evals |-> e, evecs |-> [i \in 1..m |-> <<e[i], i>>]] :
               q \in [1..m -> QSet], e \in [1..m -> {50, 70}]} : m \in 0..MaxQpts}

NoGamma ==
    [pd |-> [qpts |-> <<>>, evals |-> <<>>, evecs |-> <<>>], done |-> FALSE,
     out |-> [err |-> "none", gamma_i |-> 0 - 1, evals |-> 0, evecs |-> <<>>]]

ReadGamma ==
    /\ pc = "gamma"
    /\ ~gam.done
    /\ gam' = [gam EXCEPT !.done = TRUE, !.out = ReadGammaPhonons(gam.pd)]
    /\ UNCHANGED <<pc, cell, phfile, inp, loc, fs, ev, rd, err, red>>

-----------------------------------------------------------------------------
(* Specifications                                                           *)

NoFiles == [allconf |-> FALSE, tree |-> NoTree, report |-> NoReport]

InitWorkflow ==
    /\ inp = NoCall
    /\ loc = NoLocals
    /\ fs = NoFiles
    /\ ev = NoEval
    /\ rd = NoRead
    /\ err = NoErr

(* The write / evaluate / read workflow on a cell file and a phonon source *)
Init ==
    /\ pc = "idle"
    /\ cell \in Cells
    /\ phfile \in {"ok", "missing", "no_phonons"}
    /\ InitWorkflow
    /\ red = NoReduce
    /\ gam = NoGamma

Next ==
    \/ WriteCall
    \/ WFetchSpecies
    \/ WLoadPhonons
    \/ WFetchMasses
    \/ WCreateScheme
    \/ WRecalcDisplacements
    \/ WMakeCollection
    \/ WWriteAllconf
    \/ WGetCalculator
    \/ WSaveTree
    \/ WReturn
    \/ Evaluate
    \/ ReadCall
    \/ RLoadTree
    \/ RCollect
    \/ RAverage
    \/ RReport
    \/ RReturn

Spec == Init /\ [][Next]_vars

(* The reduction as a function of its inputs *)
InitReduce ==
    /\ pc = "reduce"
    /\ cell \in {c \in Cells : \A j \in 1..NumAtoms : c.species[j] = "H"}
    /\ phfile = "ok"
    /\ InitWorkflow
    /\ \E v \in ReduceValues, w \in ReduceWeights :
          red = [NoReduce EXCEPT !.to_avg = v, !.weights = w]
    /\ gam = NoGamma

NextReduce == Reduce

SpecReduce == InitReduce /\ [][NextReduce]_vars

(* The gamma point search as a function of the phonon data *)
InitGamma ==
    /\ pc = "gamma"
    /\ cell \in {c \in Cells : \A j \in 1..NumAtoms : c.species[j] = "H"}
    /\ phfile = "ok"
    /\ InitWorkflow
    /\ red = NoReduce
    /\ \E pd \in PhononData : gam = [NoGamma EXCEPT !.pd = pd]

NextGamma == ReadGamma

SpecGamma == InitGamma /\ [][NextGamma]_vars

-----------------------------------------------------------------------------
(* Properties                                                               *)

(* Value i of an array of values, as its sequence of components *)
ValueAt(a, i) == IF a.ndim = 1 THEN <<a.d[1][i]>> ELSE a.d[i]

ValueLen(a) == IF a.ndim = 1 THEN 1 ELSE a.shape[2]

RECURSIVE WeightedSum(_, _, _, _)
WeightedSum(weights, a, k, n) ==
    IF n = 0 THEN 0
    ELSE weights[n] * ValueAt(a, n)[k] + WeightedSum(weights, a, k, n - 1)

(* C1: for N > 0 values and N weights the reduction succeeds and every     *)
(* component k of the average is the sum over the configurations i of      *)
(* w_i * v_i[k]; the average has the shape of a single value.              *)
C1_WeightedAverage ==
    LET N == red.to_avg.shape[1]
    IN  (red.done /\ N > 0 /\ Len(red.weights) = N) =>
            /\ red.out.ok
            /\ red.out.avg.ndim = red.to_avg.ndim - 1
            /\ Len(red.out.avg.d[1]) = ValueLen(red.to_avg)
            /\ \A k \in 1..ValueLen(red.to_avg) :
                  red.out.avg.d[1][k] = WeightedSum(red.weights, red.to_avg, k, N)

C1_Witness ==
    /\ red.done
    /\ red.to_avg.ndim = 2
    /\ red.to_avg.shape[1] = 3
    /\ Len(red.weights) = 3
    /\ red.weights[1] # red.weights[2]
    /\ red.out.ok
    /\ red.out.avg.d[1][1] # red.out.avg.d[1][2]

(* C5: whenever the number of values (N > 0) differs from the number of    *)
(* weights the reduction fails; it computes no average from truncated or   *)
(* broadcast weights.                                                      *)
C5_LengthMismatchFails ==
    (red.done /\ red.to_avg.shape[1] > 0 /\ Len(red.weights) # red.to_avg.shape[1])
        => ~red.out.ok

(* C7: whenever the weights used do not sum to 1 (Scale; the tolerance is  *)
(* far below one unit of weight) the reduction fails and reports no        *)
(* average.                                                                *)
C7_UnnormalisedWeightsFail ==
    (red.done /\ red.to_avg.shape[1] > 0 /\ Len(red.weights) = red.to_avg.shape[1]
        /\ SumSeq(red.weights) # Scale)
        => ~red.out.ok

(* Positions of the write workflow at which the muon has been resolved,    *)
(* the masses fetched, the scheme constructed.                             *)
MuonResolved == loc.species # <<>>

MassesFetched == loc.masses # <<>>

SchemeBuilt == loc.displsch.kind # "unbound"

(* C2: the masses handed to the scheme constructor hold the muon mass at   *)
(* mu_index (and the host mass elsewhere), for both methods, and so do the *)
(* masses of the scheme that generates the displacements and is stored.    *)
C2_MuonMassBeforeScheme ==
    /\ SchemeBuilt =>
          /\ PyGet(loc.displsch.masses, loc.mu_index) = m_mu_amu
          /\ loc.displsch.masses = loc.masses
          /\ \A j \in 1..NumAtoms :
                j # PyPos(loc.mu_index, NumAtoms) =>
                    loc.displsch.masses[j] = cell.masses[j]
    /\ fs.tree.written =>
          PyGet(fs.tree.displacement_scheme.masses, fs.tree.muon_index) = m_mu_amu

C2_Witness ==
    /\ pc = "w_done"
    /\ loc.displsch.kind = "montecarlo"
    /\ loc.mu_index # inp.mu_index
    /\ Len(loc.displsch.displacements) = MaxGridN
    /\ PyGet(cell.masses, loc.mu_index) # m_mu_amu

(* C3: the write workflow calls recalc_displacements(grid_n, displace_T)   *)
(* exactly once and never recalc_weights; the read workflow calls          *)
(* recalc_weights(average_T) exactly once and never recalc_displacements;  *)
(* the displacements of the scheme at averaging time are those generated   *)
(* and applied to the cells at write time.                                 *)
C3_DisplaceOnceWeighLater ==
    LET stored == fs.tree.displacement_scheme
        wcall  == <<"recalc_displacements", inp.grid_n, inp.displace_T>>
        rcall  == <<"recalc_weights", inp.average_T>>
    IN  /\ loc.displsch.log \in {<<>>, <<wcall>>}
        /\ pc \in {"w_cells", "w_allconf", "w_calculator", "w_save", "w_done"} =>
              loc.displsch.log = <<wcall>>
        /\ pc = "w_done" => stored = loc.displsch
        /\ fs.tree.written =>
              /\ Len(stored.log) = 1
              /\ stored.log[1][1] = "recalc_displacements"
              /\ Len(stored.displacements) = stored.log[1][2]
        /\ pc \in {"r_collect", "r_average"} => rd.displsch = stored
        /\ pc \in {"r_report", "r_done"} =>
              /\ rd.displsch.log = Append(stored.log, rcall)
              /\ rd.displsch.displacements = stored.displacements
              /\ \A i \in 1..Len(fs.tree.cells) : \A j \in 1..NumAtoms :
                    fs.tree.cells[i].positions[j]
                        = cell.positions[j] + rd.displsch.displacements[i][j]

C3_Witness ==
    /\ pc = "r_done"
    /\ fs.tree.displacement_scheme.log[1][3] # inp.average_T
    /\ Len(rd.displsch.displacements) > 1
    /\ Len(rd.displsch.weights) = Len(rd.displsch.displacements)

(* C4: whatever the order in which the evaluations completed, the i-th     *)
(* value of the average is the property of the configuration named         *)
(* '<seed>_displaced_i', whose positions are the base positions plus the   *)
(* i-th displacement, and it is multiplied by the i-th weight.             *)
C4_ValueWeightByIndex ==
    LET sch == fs.tree.displacement_scheme
        displaced(i) == [j \in 1..NumAtoms |-> cell.positions[j] + sch.displacements[i][j]]
    IN  /\ pc \in {"w_allconf", "w_calculator", "w_save", "w_done"} =>
              \A i \in 1..Len(loc.displsch.displacements) :
                  /\ loc.displaced_cells[i].name = ConfName(i - 1)
                  /\ \A j \in 1..NumAtoms :
                        loc.displaced_cells[i].positions[j]
                            = cell.positions[j] + loc.displsch.displacements[i][j]
        /\ pc \in {"r_average", "r_report", "r_done"} =>
              /\ rd.to_avg.shape[1] = Len(sch.displacements)
              /\ \A i \in 1..Len(sch.displacements) :
                    /\ rd.coll[i].name = ConfName(i - 1)
                    /\ rd.coll[i].positions = displaced(i)
                    /\ ValueAt(rd.to_avg, i)
                          = MuonValue(displaced(i), inp.avgprop, fs.tree.muon_index)
        /\ pc = "r_done" =>
              /\ rd.used = rd.displsch.weights
              /\ Len(rd.used) = Len(sch.displacements)
              /\ \A k \in 1..ValueLen(rd.to_avg) :
                    fs.report.avg.d[1][k]
                        = WeightedSum(rd.displsch.weights, rd.to_avg, k, Len(rd.used))
              /\ \A i \in 1..Len(sch.displacements) :
                    fs.report.confs[i]
                        = <<i - 1, rd.displsch.weights[i],
                            IF rd.to_avg.ndim = 1 THEN rd.to_avg.d[1][i] ELSE rd.to_avg.d[i]>>

C4_Witness ==
    /\ pc = "r_done"
    /\ ~ev.in_order
    /\ Len(rd.coll) = MaxGridN
    /\ rd.displsch.weights[1] # rd.displsch.weights[2]
    /\ ValueAt(rd.to_avg, 1) # ValueAt(rd.to_avg, 2)

(* Indices of the configurations of the tree that have no property value *)
MissingConfs ==
    {i - 1 : i \in {k \in 1..Len(fs.tree.dirlist) : fs.tree.dirlist[k] \notin Evaluated}}

ReadEnded == pc \in {"r_done", "r_failed"} /\ fs.tree.written

(* C6 as stated: when configurations have no property value the read fails *)
(* with an error identifying the missing configuration indices.  Stated    *)
(* for the reads whose structures were all loaded, so that the missing     *)
(* value is met at lines 258-266.                                          *)
C6_ErrorNamesMissing ==
    (ReadEnded /\ MissingConfs # {} /\ rd.coll # <<>>) =>
        /\ pc = "r_failed"
        /\ err.indices = MissingConfs

(* C6 as amended: when configurations have no property value the read      *)
(* fails with an IOError or a KeyError, which names at most the first      *)
(* missing configuration; an average is computed and reported only when    *)
(* every configuration has its value, with one weight per configuration.   *)
C6_NoPartialAverage ==
    /\ (ReadEnded /\ MissingConfs # {}) =>
          /\ pc = "r_failed"
          /\ err.type \in {"IOError", "KeyError"}
          /\ err.indices \subseteq MissingConfs
          /\ rd.avg = NoRead.avg
    /\ (pc \in {"r_average", "r_report", "r_done"} \/ fs.report.written) =>
          MissingConfs = {}
    /\ pc \in {"r_report", "r_done"} =>
          /\ rd.to_avg.shape[1] = Len(fs.tree.dirlist)
          /\ Len(rd.used) = Len(fs.tree.dirlist)

C6_Witness ==
    /\ pc = "r_failed"
    /\ err.type = "KeyError"
    /\ Cardinality(MissingConfs) = 2
    /\ Evaluated # {}
    /\ ~fs.report.written

(* A q-point is the zero wavevector when every component is zero to within *)
(* the absolute tolerance of the comparison.                               *)
ZeroWavevector(q) == \A c \in 1..3 : Abs(q[c]) <= np_atol

GammaPoints == {i \in 1..Len(gam.pd.qpts) : ZeroWavevector(gam.pd.qpts[i])}

(* C8: the call fails iff no q-point is the zero wavevector; otherwise it  *)
(* returns the eigenvalues and eigenvectors of the first q-point that is.  *)
C8_FirstGammaPoint ==
    gam.done =>
        /\ gam.out.err = "MuonAverageError" <=> GammaPoints = {}
        /\ GammaPoints # {} =>
              LET g == CHOOSE i \in GammaPoints : \A k \in GammaPoints : i <= k
              IN  /\ gam.out.err = "none"
                  /\ gam.out.gamma_i = g - 1
                  /\ gam.out.evals = gam.pd.evals[g]
                  /\ gam.out.evecs = gam.pd.evecs[g]

C8_Witness ==
    /\ gam.done
    /\ gam.out.err = "none"
    /\ gam.out.gamma_i = 1
    /\ Cardinality(GammaPoints) = 2
    /\ gam.pd.evals[2] # gam.pd.evals[1]

MuonsInFile == {j \in 1..NumAtoms : cell.species[j] = mu_symbol}

(* C9: more than one muon in the file fails the call; one overrides the    *)
(* mu_index argument; none marks the atom at mu_index.  After the step     *)
(* exactly one species entry is the muon, at mu_index, and the same        *)
(* mu_index serves the mass substitution, the scheme and the stored        *)
(* muon_index.                                                             *)
C9_MuonIdentification ==
    LET t == PyPos(loc.mu_index, NumAtoms)
    IN  /\ (pc = "w_failed" /\ Cardinality(MuonsInFile) > 1) =>
              err.type = "MuonAverageError"
        /\ MuonResolved =>
              /\ Cardinality(MuonsInFile) <= 1
              /\ MuonsInFile # {} => MuonsInFile = {loc.mu_index + 1}
              /\ MuonsInFile = {} => loc.mu_index = inp.mu_index
              /\ t # 0
              /\ {j \in 1..NumAtoms : loc.species[j] = mu_symbol} = {t}
              /\ \A j \in 1..NumAtoms : j # t => loc.species[j] = cell.species[j]
        /\ MassesFetched =>
              loc.masses = [cell.masses EXCEPT ![t] = m_mu_amu]
        /\ loc.displsch.kind = "independent" => loc.displsch.mu = <<loc.mu_index>>
        /\ pc = "w_done" => fs.tree.muon_index = loc.mu_index

C9_Witness ==
    /\ pc = "w_done"
    /\ loc.displsch.kind = "independent"
    /\ MuonsInFile = {1}
    /\ inp.mu_index = 1
    /\ fs.tree.muon_index = 0

(* C10: when the write call fails, neither the _allconf file nor the       *)
(* _displaced tree has been written.                                       *)
C10_NoOutputOnFailure ==
    pc = "w_failed" => (~fs.allconf /\ ~fs.tree.written)

=============================================================================
